---------------------------- MODULE Spec2Model ----------------------------
(***************************************************************************)
(* State-machine model of pcdsdevices/signal.py (AggregateSignal,          *)
(* AvgSignal, UnitConversionDerivedSignal) and pcdsdevices/gon.py (Kappa). *)
(*                                                                         *)
(* Each component has its own next-state relation and specification; the   *)
(* variables of the other components keep their initial values.            *)
(***************************************************************************)
EXTENDS Integers, Sequences, FiniteSets, TLC

(***************************************************************************)
(* Bounds of the model.                                                    *)
(***************************************************************************)
MaxVal == 1          \* samples of an AvgSignal are drawn from 0..MaxVal
MaxUpdates == 2      \* number of source-value changes posted by the sources

MaxAvg == 2          \* buffer capacities (averages) are drawn from 1..MaxAvg
MaxSamples == 3      \* number of samples posted by the source of an AvgSignal

MaxMoves == 2        \* number of move requests made on a Kappa

MaxOffset == 1       \* user offsets are drawn from -MaxOffset..MaxOffset
MaxRaw == 1          \* source values and arguments are drawn from -MaxRaw..MaxRaw

Threads == {"t1", "t2"}
None == "None"
Values == 0..MaxVal

\* The thread that receives KeyboardInterrupt (ctrl+c).
MainThread == "t1"

\* ---- state of AggregateSignal ----
VARIABLES
    cache,                   \* self._cache : signal -> last known value
    readback,                \* self._readback
    lockOwner,               \* self._lock (RLock): owning thread or None
    has_subscribed,          \* self._has_subscribed
    update_only_on_change,   \* self._update_only_on_change (class attribute)
    attached,                \* per sub-signal: number of _run_sub_value subscriptions
    observers,               \* callbacks registered on this signal
    sigValue,                \* current value of each sub-signal (the sources)
    pending,                 \* change notifications posted by the sources, in order
    pc,                      \* per thread: position in get/subscribe/_run_sub_value
    frame,                   \* per thread: local variables of the running method
                             \*   (before: history, the readback on entry)
    obsLog,                  \* calls made to the observers through _run_subs
    latest,                  \* history: value last stored for each channel
    populated,               \* history: a get() has completed (cache is full)
    lastOutcome,             \* history: how the last finished _run_sub_value ended
    nUpdates,                \* history: number of source changes so far
    badValues,               \* the values the subclass's _calc_readback rejects
    getResult,               \* history: how the last finished get() ended
    procLog                  \* history: the recomputations of _run_sub_value, in
                             \*   the order the lock admitted them

aggVars == <<cache, readback, lockOwner, has_subscribed, update_only_on_change, attached, observers, sigValue, pending, pc, frame, obsLog, latest, populated, lastOutcome, nUpdates, badValues, getResult, procLog>>

\* ---- state of AvgSignal ----
VARIABLES
    values,          \* self.values : the buffer, NaN in the slots never written
    index,           \* self.index : the write cursor
    avg,             \* self._avg : the capacity
    con,             \* self._con
    avgLock,         \* self._lock (RLock): owning thread or None
    avgValue,        \* the value of this signal, as set by self.put(...)
    avgPuts,         \* number of self.put(...) calls made (observer deliveries)
    rawConnected,    \* raw_sig is connected
    rawSubscribed,   \* raw_sig has _update_avg subscribed
    rawValue,        \* raw_sig: <<last value>>, <<>> before the first one
    avgPending,      \* _update_avg calls posted by raw_sig, in order
    initPc,          \* position of the thread running _init_subs
    avgPc,           \* per thread: position in _update_avg / the averages setter
    avgFrame,        \* per thread: the argument of the running method
    fed,             \* history: samples written since the last capacity change
    nSamples         \* history: number of samples posted by raw_sig

avgVars == <<values, index, avg, con, avgLock, avgValue, avgPuts, rawConnected, rawSubscribed, rawValue, avgPending, initPc, avgPc, avgFrame, fed, nSamples>>

\* ---- state of Kappa ----
VARIABLES
    kappa_ang,       \* self.kappa_ang
    pos,             \* per axis motor (eta, kappa, phi): its position, axis.wm()
    moving,          \* per axis motor: a commanded motion has not settled yet
    goal,            \* per axis motor: the target of the last mv command
    cmdLog,          \* history: the commands sent to the axis motors, in order
    kpc,             \* per thread: position in mv_e_eta / mv_e_chi / mv_e_phi
    kframe,          \* per thread: the locals of the move request, and its history
    kres,            \* per thread: how the last move request ended
    nMoves,          \* history: number of move requests made
    api              \* the last direct call of e_to_k / check_motor_step and its result

kapVars == <<kappa_ang, pos, moving, goal, cmdLog, kpc, kframe, kres, nMoves, api>>


\* ---- state of UnitConversionDerivedSignal ----
VARIABLES
    user_offset,     \* self._user_offset : a number or None
    derived_units,   \* self.derived_units
    original_units,  \* self.original_units : a unit name or None
    suppliedUnits,   \* history: the original_units given to the constructor
    srcConnected,    \* self._derived_from.connected
    srcValue,        \* the value of self._derived_from : a number or None
    derivedValue,    \* self._readback : the derived value last published
    ucLast           \* the last operation on the signal: what it was given, the
                     \*   state it started from and what it did

ucVars == <<user_offset, derived_units, original_units, suppliedUnits, srcConnected, srcValue, derivedValue, ucLast>>
(***************************************************************************)
(* AggregateSignal (signal.py 115-203)                                     *)
(***************************************************************************)
\* The callbacks that clients subscribe, each once and in this order.
Callbacks == <<"cb1", "cb2">>

\* The values the sub-signals take.
SigValues == {0, 1}

\* self._sub_signals, in list order (filled in by the subclass).
SubSignals == <<"s1", "s2">>
Sigs == {SubSignals[i] : i \in 1..Len(SubSignals)}

KeyError == "KeyError"

SetMax(S) == CHOOSE x \in S : \A y \in S : y <= x

ValueError == "ValueError"

\* _calc_readback of a subclass: a pure function of the cache that needs an
\* entry for every sub-signal (a missing key raises), and that raises when
\* every sub-signal holds a value it rejects.
CalcReadback(c) ==
    IF \E s \in Sigs : s \notin DOMAIN c
    THEN [exc |-> KeyError, value |-> None]
    ELSE IF \A s \in Sigs : c[s] \in badValues
    THEN [exc |-> ValueError, value |-> None]
    ELSE [exc |-> None, value |-> SetMax({c[s] : s \in Sigs})]

\* d[key] = value on a dict: the key is added when missing
DictSet(d, key, value) ==
    [x \in DOMAIN d \cup {key} |-> IF x = key THEN value ELSE d[x]]

\* _insert_value: self._cache[signal] = value
InsertValue(c, sig, value) == DictSet(c, sig, value)

\* Mutant of CanAcquire: the lock excludes nobody.
CanAcquireUnguarded(t) == TRUE

\* with self._lock: an RLock is acquired when free or already owned
CanAcquire(t) == lockOwner \in {None, t}

\* Mutant of ShouldNotify: the comparison with old_value is dropped.
ShouldNotifyAlways(value, old_value, only_on_change) == TRUE

\* if value != old_value or not self._update_only_on_change
ShouldNotify(value, old_value, only_on_change) ==
    value /= old_value \/ ~only_on_change

\* self._run_subs(sub_type=self.SUB_VALUE, obj=self, value=value, old_value=old_value)
RunSubsArgs(value, old_value) == [value |-> value, old_value |-> old_value]

\* Mutant of UpdateState: an exception of _calc_readback is swallowed.
UpdateStateQuiet(c, old) ==
    LET r == CalcReadback(c) IN
    IF r.exc /= None THEN [exc |-> None, readback |-> old]
    ELSE [exc |-> None, readback |-> r.value]

\* _update_state: self._readback = self._calc_readback()
\* An exception of _calc_readback leaves self._readback as it was.
UpdateState(c, old) ==
    LET r == CalcReadback(c) IN
    IF r.exc /= None THEN [exc |-> r.exc, readback |-> old]
    ELSE [exc |-> None, readback |-> r.value]

EmptyFrame == [sig |-> None, value |-> None, old_value |-> None, i |-> 0,
               before |-> None]

AggInitFor(only_on_change, bad) ==
    /\ cache = <<>>
    /\ readback = 0
    /\ lockOwner = None
    /\ has_subscribed = FALSE
    /\ update_only_on_change = only_on_change
    /\ attached = [s \in Sigs |-> 0]
    /\ observers = <<>>
    /\ sigValue = [s \in Sigs |-> 0]
    /\ pending = <<>>
    /\ pc = [t \in Threads |-> "idle"]
    /\ frame = [t \in Threads |-> EmptyFrame]
    /\ obsLog = <<>>
    /\ latest = <<>>
    /\ populated = FALSE
    /\ lastOutcome = None
    /\ nUpdates = 0
    /\ procLog = <<>>
    /\ badValues = bad
    /\ getResult = None

\* a subclass whose _calc_readback accepts every value
AggInitWith(only_on_change) == AggInitFor(only_on_change, {})

\* _update_only_on_change is True in AggregateSignal (131); a subclass may
\* set it to False.
AggInit == \E b \in BOOLEAN : AggInitWith(b)

\* a subclass whose _calc_readback rejects the value 1
AggInitRejecting == \E b \in BOOLEAN : AggInitFor(b, {1})

\* ---- the sources ----

Copies(n, x) == [k \in 1..n |-> x]

\* A sub-signal takes a new value and calls every subscription of
\* _run_sub_value attached to it (one call per attachment).
SourceChange(s, v) ==
    /\ nUpdates < MaxUpdates
    /\ nUpdates' = nUpdates + 1
    /\ sigValue' = [sigValue EXCEPT ![s] = v]
    /\ pending' = pending \o Copies(attached[s], [sig |-> s, value |-> v])
    /\ UNCHANGED <<cache, readback, lockOwner, has_subscribed,
                   update_only_on_change, attached, observers, pc, frame,
                   obsLog, latest, populated, lastOutcome, badValues,
                   getResult, procLog, avgVars, kapVars, ucVars>>

\* ---- _run_sub_value (191-203) ----

\* A source thread calls _run_sub_value(obj=sig, value=value, ...).
RunSubValueCall(t) ==
    /\ pc[t] = "idle"
    /\ pending /= <<>>
    /\ pending' = Tail(pending)
    /\ frame' = [frame EXCEPT ![t] = [EmptyFrame EXCEPT
                    !.sig = Head(pending).sig, !.value = Head(pending).value]]
    /\ pc' = [pc EXCEPT ![t] = "rsv_lock"]
    /\ UNCHANGED <<cache, readback, lockOwner, has_subscribed,
                   update_only_on_change, attached, observers, sigValue,
                   obsLog, latest, populated, lastOutcome, nUpdates,
                   badValues, getResult, procLog, avgVars, kapVars, ucVars>>

\* with self._lock: old_value = self._readback, then
\* value = self._insert_value(sig, value): the cache write
RunSubValueInsert(t) ==
    /\ pc[t] = "rsv_lock"
    /\ CanAcquire(t)
    /\ lockOwner' = t
    /\ frame' = [frame EXCEPT ![t].old_value = readback, ![t].before = readback]
    /\ cache' = InsertValue(cache, frame[t].sig, frame[t].value)
    /\ latest' = DictSet(latest, frame[t].sig, frame[t].value)
    /\ pc' = [pc EXCEPT ![t] = "rsv_update"]
    /\ UNCHANGED <<readback, has_subscribed, update_only_on_change,
                   attached, observers, sigValue, pending, obsLog,
                   populated, lastOutcome, nUpdates, badValues, getResult,
                   procLog, avgVars, kapVars, ucVars>>

\* ... self._update_state(); return self._readback.  An exception of
\* _calc_readback leaves the with blocks (the lock is released) and
\* propagates out of _run_sub_value.
RunSubValueUpdate(t) ==
    LET u == UpdateState(cache, readback) IN
    /\ pc[t] = "rsv_update"
    /\ readback' = u.readback
    /\ IF u.exc /= None
       THEN /\ lockOwner' = None
            /\ frame' = [frame EXCEPT ![t] = EmptyFrame]
            /\ lastOutcome' = "raised"
            /\ procLog' = procLog
            /\ pc' = [pc EXCEPT ![t] = "idle"]
       ELSE /\ lockOwner' = lockOwner
            /\ frame' = [frame EXCEPT ![t].value = u.readback]
            /\ lastOutcome' = lastOutcome
            /\ procLog' = Append(procLog, RunSubsArgs(u.readback, frame[t].old_value))
            /\ pc' = [pc EXCEPT ![t] = "rsv_notify"]
    /\ UNCHANGED <<cache, has_subscribed, update_only_on_change, attached,
                   observers, sigValue, pending, obsLog, latest, populated,
                   nUpdates, badValues, getResult, avgVars, kapVars, ucVars>>

\* if value != old_value or not self._update_only_on_change: self._run_subs(...)
\* then the with block ends and the lock is released.
RunSubValueNotify(t) ==
    LET notify == ShouldNotify(frame[t].value, frame[t].old_value,
                               update_only_on_change) IN
    /\ pc[t] = "rsv_notify"
    /\ obsLog' = IF notify
                 THEN Append(obsLog,
                        [args |-> RunSubsArgs(frame[t].value, frame[t].old_value),
                         locked |-> (lockOwner = t)])
                 ELSE obsLog
    /\ lastOutcome' = IF notify THEN "notified" ELSE "suppressed"
    /\ lockOwner' = None
    /\ pc' = [pc EXCEPT ![t] = "idle"]
    /\ frame' = [frame EXCEPT ![t] = EmptyFrame]
    /\ UNCHANGED <<cache, readback, has_subscribed, update_only_on_change,
                   attached, observers, sigValue, pending, latest,
                   populated, nUpdates, badValues, getResult, procLog,
                   avgVars, kapVars, ucVars>>

\* ---- get (165-171) ----

\* A client thread calls get(), or subscribe() has reached its self.get();
\* with self._lock:
GetLock(t) ==
    /\ pc[t] \in {"idle", "get_lock"}
    /\ CanAcquire(t)
    /\ lockOwner' = t
    /\ frame' = [frame EXCEPT ![t].i = 1]
    /\ pc' = [pc EXCEPT ![t] = "get_read"]
    /\ UNCHANGED <<cache, readback, has_subscribed, update_only_on_change,
                   attached, observers, sigValue, pending, obsLog, latest,
                   populated, lastOutcome, nUpdates, badValues, getResult,
                   procLog, avgVars, kapVars, ucVars>>

\* for signal in self._sub_signals: self._cache[signal] = signal.get(**kwargs)
GetRead(t) ==
    LET s == SubSignals[frame[t].i] IN
    /\ pc[t] = "get_read"
    /\ cache' = InsertValue(cache, s, sigValue[s])
    /\ latest' = DictSet(latest, s, sigValue[s])
    /\ frame' = [frame EXCEPT ![t].i = @ + 1]
    /\ pc' = [pc EXCEPT ![t] = IF frame[t].i = Len(SubSignals)
                                 THEN "get_update" ELSE "get_read"]
    /\ UNCHANGED <<readback, lockOwner, has_subscribed,
                   update_only_on_change, attached, observers, sigValue,
                   pending, obsLog, populated, lastOutcome, nUpdates,
                   badValues, getResult, procLog, avgVars, kapVars, ucVars>>

\* self._update_state(); return self._readback.  An exception of
\* _calc_readback leaves the with block (the lock is released) and
\* propagates to the caller of get().
GetUpdate(t) ==
    LET u == UpdateState(cache, readback) IN
    /\ pc[t] = "get_update"
    /\ readback' = u.readback
    /\ lockOwner' = None
    /\ populated' = (populated \/ u.exc = None)
    /\ getResult' = IF u.exc /= None THEN u.exc ELSE "returned"
    /\ frame' = [frame EXCEPT ![t] = EmptyFrame]
    /\ pc' = [pc EXCEPT ![t] = "idle"]
    /\ UNCHANGED <<cache, has_subscribed, update_only_on_change, attached,
                   observers, sigValue, pending, obsLog, latest,
                   lastOutcome, nUpdates, badValues, procLog, avgVars,
                   kapVars, ucVars>>

\* ---- subscribe (176-189) ----

\* cid = super().subscribe(cb, event_type=event_type, run=run), then the test
\* event_type in (None, SUB_VALUE) and not self._has_subscribed
SubscribeCall(t, cb, event_type) ==
    /\ pc[t] = "idle"
    /\ Len(observers) < Len(Callbacks)
    /\ cb = Callbacks[Len(observers) + 1]
    /\ observers' = Append(observers, cb)
    /\ IF event_type \in {None, "value"} /\ ~has_subscribed
       THEN /\ pc' = [pc EXCEPT ![t] = "sub_attach"]
            /\ frame' = [frame EXCEPT ![t].i = 1]
       ELSE /\ pc' = pc
            /\ frame' = frame
    /\ UNCHANGED <<cache, readback, lockOwner, has_subscribed,
                   update_only_on_change, attached, sigValue, pending,
                   obsLog, latest, populated, lastOutcome, nUpdates,
                   badValues, getResult, procLog, avgVars, kapVars, ucVars>>

\* for signal in self._sub_signals: signal.subscribe(self._run_sub_value, run=False)
\* followed by self.get()
SubscribeAttach(t) ==
    LET s == SubSignals[frame[t].i] IN
    /\ pc[t] = "sub_attach"
    /\ attached' = [attached EXCEPT ![s] = @ + 1]
    /\ frame' = [frame EXCEPT ![t].i = @ + 1]
    /\ pc' = [pc EXCEPT ![t] = IF frame[t].i = Len(SubSignals)
                                 THEN "get_lock" ELSE "sub_attach"]
    /\ UNCHANGED <<cache, readback, lockOwner, has_subscribed,
                   update_only_on_change, observers, sigValue, pending,
                   obsLog, latest, populated, lastOutcome, nUpdates,
                   badValues, getResult, procLog, avgVars, kapVars, ucVars>>

NextAgg ==
    \/ \E s \in Sigs, v \in SigValues : SourceChange(s, v)
    \/ \E t \in Threads : RunSubValueCall(t)
    \/ \E t \in Threads : RunSubValueInsert(t)
    \/ \E t \in Threads : RunSubValueUpdate(t)
    \/ \E t \in Threads : RunSubValueNotify(t)
    \/ \E t \in Threads : GetLock(t)
    \/ \E t \in Threads : GetRead(t)
    \/ \E t \in Threads : GetUpdate(t)
    \/ \E t \in Threads, cb \in {"cb1", "cb2"}, e \in {None, "value", "meta"} :
            SubscribeCall(t, cb, e)
    \/ \E t \in Threads : SubscribeAttach(t)

(***************************************************************************)
(* AvgSignal (signal.py 206-272)                                           *)
(***************************************************************************)
\* A float slot of the buffer: NaN, or <<v>> for the sample v.
NaN == <<>>

\* Mutant of NanArray: np.zeros(avg), every slot holds the sample 0.
ZeroArray(n) == [k \in 0..(n - 1) |-> <<0>>]

\* np.empty(avg) followed by values.fill(np.nan)
NanArray(n) == [k \in 0..(n - 1) |-> NaN]

RECURSIVE SumSet(_, _)
SumSet(f, S) ==
    IF S = {} THEN 0
    ELSE LET k == CHOOSE x \in S : TRUE IN f[k][1] + SumSet(f, S \ {k})

\* Mutant of NanMean: np.mean over a zero-filled buffer (the slots never
\* written count as zero).
MeanWithZeros(vals) ==
    LET set == {k \in DOMAIN vals : vals[k] /= NaN} IN
    [sum |-> SumSet(vals, set), n |-> Cardinality(DOMAIN vals)]

\* np.nanmean(self.values): the mean of the slots that are not NaN, as the
\* fraction sum/n (NaN when every slot is NaN).
NanMean(vals) ==
    LET set == {k \in DOMAIN vals : vals[k] /= NaN} IN
    IF set = {} THEN [sum |-> 0, n |-> 0]
    ELSE [sum |-> SumSet(vals, set), n |-> Cardinality(set)]

\* self.index = (self.index + 1) % len(self.values)
NextIndex(i, vals) == (i + 1) % Cardinality(DOMAIN vals)

\* Mutant of AvgCanAcquire: the lock excludes nobody.
AvgCanAcquireUnguarded(t) == TRUE

\* with self._lock:
AvgCanAcquire(t) == avgLock \in {None, t}

\* __init__ (230-239): self.averages = averages, self._con = False, and the
\* thread running _init_subs is started.  The signal's own value is the
\* default of ophyd's Signal.
AvgInitWith(averages) ==
    /\ avg = averages
    /\ values = NanArray(avg)
    /\ index = 0
    /\ con = FALSE
    /\ avgLock = None
    /\ avgValue = [sum |-> 0, n |-> 1]
    /\ avgPuts = 0
    /\ rawConnected = FALSE
    /\ rawSubscribed = FALSE
    /\ rawValue = <<>>
    /\ avgPending = <<>>
    /\ initPc = "wait"
    /\ avgPc = [t \in Threads |-> "idle"]
    /\ avgFrame = [t \in Threads |-> None]
    /\ fed = <<>>
    /\ nSamples = 0

AvgInit == \E n \in 1..MaxAvg : AvgInitWith(n)

\* ---- raw_sig ----

RawConnect ==
    /\ ~rawConnected
    /\ rawConnected' = TRUE
    /\ UNCHANGED <<values, index, avg, con, avgLock, avgValue, avgPuts,
                   rawSubscribed, rawValue, avgPending, initPc, avgPc,
                   avgFrame, fed, nSamples, aggVars, kapVars, ucVars>>

\* raw_sig loses its connection; its subscriptions stay.
RawDisconnect ==
    /\ rawConnected
    /\ rawConnected' = FALSE
    /\ UNCHANGED <<values, index, avg, con, avgLock, avgValue, avgPuts,
                   rawSubscribed, rawValue, avgPending, initPc, avgPc,
                   avgFrame, fed, nSamples, aggVars, kapVars, ucVars>>

\* raw_sig takes a new value and calls its subscribers.
RawChange(v) ==
    /\ rawConnected
    /\ nSamples < MaxSamples
    /\ nSamples' = nSamples + 1
    /\ rawValue' = <<v>>
    /\ avgPending' = IF rawSubscribed THEN Append(avgPending, v) ELSE avgPending
    /\ UNCHANGED <<values, index, avg, con, avgLock, avgValue, avgPuts,
                   rawConnected, rawSubscribed, initPc, avgPc, avgFrame,
                   fed, aggVars, kapVars, ucVars>>

\* ---- _init_subs (241-244) ----

\* self.raw_sig.wait_for_connection() returns
InitSubsConnected ==
    /\ initPc = "wait"
    /\ rawConnected
    /\ initPc' = "subscribe"
    /\ UNCHANGED <<values, index, avg, con, avgLock, avgValue, avgPuts,
                   rawConnected, rawSubscribed, rawValue, avgPending, avgPc,
                   avgFrame, fed, nSamples, aggVars, kapVars, ucVars>>

\* self.raw_sig.subscribe(self._update_avg): run=True is the default, so the
\* callback is called at once with the value raw_sig holds, if it has one.
InitSubsSubscribe ==
    /\ initPc = "subscribe"
    /\ rawSubscribed' = TRUE
    /\ avgPending' = avgPending \o rawValue
    /\ initPc' = "set_con"
    /\ UNCHANGED <<values, index, avg, con, avgLock, avgValue, avgPuts,
                   rawConnected, rawValue, avgPc, avgFrame, fed, nSamples,
                   aggVars, kapVars, ucVars>>

\* Mutant of InitSubsSetCon: _init_subs ends without self._con = True.
InitSubsLeaveCon ==
    /\ initPc = "set_con"
    /\ initPc' = "done"
    /\ UNCHANGED <<values, index, avg, con, avgLock, avgValue, avgPuts,
                   rawConnected, rawSubscribed, rawValue, avgPending, avgPc,
                   avgFrame, fed, nSamples, aggVars, kapVars, ucVars>>

\* self._con = True
InitSubsSetCon ==
    /\ initPc = "set_con"
    /\ con' = TRUE
    /\ initPc' = "done"
    /\ UNCHANGED <<values, index, avg, avgLock, avgValue, avgPuts,
                   rawConnected, rawSubscribed, rawValue, avgPending, avgPc,
                   avgFrame, fed, nSamples, aggVars, kapVars, ucVars>>

\* ---- _update_avg (266-272) ----

\* raw_sig calls _update_avg(value=v) on some thread.
UpdateAvgCall(t) ==
    /\ avgPc[t] = "idle"
    /\ avgPending /= <<>>
    /\ avgPending' = Tail(avgPending)
    /\ avgFrame' = [avgFrame EXCEPT ![t] = Head(avgPending)]
    /\ avgPc' = [avgPc EXCEPT ![t] = "upd_lock"]
    /\ UNCHANGED <<values, index, avg, con, avgLock, avgValue, avgPuts,
                   rawConnected, rawSubscribed, rawValue, initPc, fed,
                   nSamples, aggVars, kapVars, ucVars>>

\* with self._lock: self.values[self.index] = value
UpdateAvgWrite(t) ==
    /\ avgPc[t] = "upd_lock"
    /\ AvgCanAcquire(t)
    /\ avgLock' = t
    /\ values' = [values EXCEPT ![index] = <<avgFrame[t]>>]
    /\ fed' = Append(fed, avgFrame[t])
    /\ avgPc' = [avgPc EXCEPT ![t] = "upd_index"]
    /\ UNCHANGED <<index, avg, con, avgValue, avgPuts, rawConnected,
                   rawSubscribed, rawValue, avgPending, initPc, avgFrame,
                   nSamples, aggVars, kapVars, ucVars>>

\* self.index = (self.index + 1) % len(self.values)
UpdateAvgIndex(t) ==
    /\ avgPc[t] = "upd_index"
    /\ index' = NextIndex(index, values)
    /\ avgPc' = [avgPc EXCEPT ![t] = "upd_put"]
    /\ UNCHANGED <<values, avg, con, avgLock, avgValue, avgPuts,
                   rawConnected, rawSubscribed, rawValue, avgPending,
                   initPc, avgFrame, fed, nSamples, aggVars, kapVars, ucVars>>

\* self.put(np.nanmean(self.values)); the with block ends
UpdateAvgPut(t) ==
    /\ avgPc[t] = "upd_put"
    /\ avgValue' = NanMean(values)
    /\ avgPuts' = avgPuts + 1
    /\ avgLock' = None
    /\ avgFrame' = [avgFrame EXCEPT ![t] = None]
    /\ avgPc' = [avgPc EXCEPT ![t] = "idle"]
    /\ UNCHANGED <<values, index, avg, con, rawConnected, rawSubscribed,
                   rawValue, avgPending, initPc, fed, nSamples, aggVars,
                   kapVars, ucVars>>

\* ---- averages setter (255-264) ----

\* with self._lock: self._avg = avg; self.index = 0
SetAverages(t, n) ==
    /\ avgPc[t] = "idle"
    /\ AvgCanAcquire(t)
    /\ avgLock' = t
    /\ avg' = n
    /\ index' = 0
    /\ fed' = <<>>
    /\ avgPc' = [avgPc EXCEPT ![t] = "set_alloc"]
    /\ UNCHANGED <<values, con, avgValue, avgPuts, rawConnected,
                   rawSubscribed, rawValue, avgPending, initPc, avgFrame,
                   nSamples, aggVars, kapVars, ucVars>>

\* self.values = np.empty(avg); self.values.fill(np.nan); the with block ends
SetAveragesAlloc(t) ==
    /\ avgPc[t] = "set_alloc"
    /\ values' = NanArray(avg)
    /\ avgLock' = None
    /\ avgPc' = [avgPc EXCEPT ![t] = "idle"]
    /\ UNCHANGED <<index, avg, con, avgValue, avgPuts, rawConnected,
                   rawSubscribed, rawValue, avgPending, initPc, avgFrame,
                   fed, nSamples, aggVars, kapVars, ucVars>>

NextAvg ==
    \/ RawConnect
    \/ RawDisconnect
    \/ \E v \in Values : RawChange(v)
    \/ InitSubsConnected
    \/ InitSubsSubscribe
    \/ InitSubsSetCon
    \/ \E t \in Threads : UpdateAvgCall(t)
    \/ \E t \in Threads : UpdateAvgWrite(t)
    \/ \E t \in Threads : UpdateAvgIndex(t)
    \/ \E t \in Threads : UpdateAvgPut(t)
    \/ \E t \in Threads, n \in 1..MaxAvg : SetAverages(t, n)
    \/ \E t \in Threads : SetAveragesAlloc(t)

(***************************************************************************)
(* Kappa (gon.py 218-562): numbers                                         *)
(*                                                                         *)
(* Angles are whole degrees; sines, cosines and tangents are thousandths.  *)
(* A float is [t |-> "num", v |-> degrees], or NaN; an argument left out   *)
(* is None.                                                                *)
(***************************************************************************)
Num(v) == [t |-> "num", v |-> v]
NaNv == [t |-> "nan", v |-> 0]
NoneV == [t |-> "none", v |-> 0]

\* "not x and x != 0": true of None, false of every number and of NaN
IsNone(x) == x.t = "none"

IAbs(a) == IF a < 0 THEN -a ELSE a

\* a / b rounded to the nearest integer
RoundDiv(a, b) ==
    LET q == (2 * IAbs(a) + IAbs(b)) \div (2 * IAbs(b)) IN
    IF (a < 0) /= (b < 0) THEN -q ELSE q

\* 1000 * sin(d degrees), d = 0..90
SinTable == <<
    0, 17, 35, 52, 70, 87, 105, 122, 139, 156,
    174, 191, 208, 225, 242, 259, 276, 292, 309, 326,
    342, 358, 375, 391, 407, 423, 438, 454, 469, 485,
    500, 515, 530, 545, 559, 574, 588, 602, 616, 629,
    643, 656, 669, 682, 695, 707, 719, 731, 743, 755,
    766, 777, 788, 799, 809, 819, 829, 839, 848, 857,
    866, 875, 883, 891, 899, 906, 914, 921, 927, 934,
    940, 946, 951, 956, 961, 966, 970, 974, 978, 982,
    985, 988, 990, 993, 995, 996, 998, 999, 999, 1000,
    1000 >>

\* np.sin, np.cos, np.tan of an angle in degrees (after * np.pi / 180)
SinMilli(d) ==
    LET r == d % 360 IN
    IF r <= 90 THEN SinTable[r + 1]
    ELSE IF r <= 180 THEN SinTable[180 - r + 1]
    ELSE IF r <= 270 THEN -SinTable[r - 180 + 1]
    ELSE -SinTable[360 - r + 1]

CosMilli(d) == SinMilli(d + 90)

\* the tangent of an odd multiple of 90 degrees is a very large number
TanMilli(d) ==
    IF CosMilli(d) = 0 THEN (IF SinMilli(d) < 0 THEN -1000000 ELSE 1000000)
    ELSE RoundDiv(SinMilli(d) * 1000, CosMilli(d))

\* np.arcsin: NaN (with a RuntimeWarning, no exception) outside [-1, 1];
\* otherwise the nearest whole degree (the table is increasing)
ArcSinDeg(x) ==
    IF x > 1000 \/ x < -1000 THEN NaNv
    ELSE LET d == Cardinality({e \in 1..90 :
                      SinTable[e] + SinTable[e + 1] < 2 * IAbs(x)})
         IN Num(IF x < 0 THEN -d ELSE d)

\* 1000 * tan(d degrees), d = 0..90
TanTable == [i \in 1..91 |-> TanMilli(i - 1)]

\* np.arctan: the nearest whole degree
ArcTanDeg(x) ==
    LET d == Cardinality({e \in 1..90 :
                 TanTable[e] + TanTable[e + 1] < 2 * IAbs(x)})
    IN Num(IF x < 0 THEN -d ELSE d)

\* a / b on numpy floats, as the argument of np.arcsin: a division by zero
\* gives inf or NaN (RuntimeWarning, no exception), and arcsin of either is NaN.
FDiv(a, b) == IF b = 0 THEN 2000 ELSE RoundDiv(a * 1000, b)

\* float arithmetic; NaN propagates
FNeg(x) == IF x.t = "nan" THEN NaNv ELSE Num(-x.v)
FSub(x, y) == IF x.t = "nan" \/ y.t = "nan" THEN NaNv ELSE Num(x.v - y.v)
FTwice(x) == IF x.t = "nan" THEN NaNv ELSE Num(2 * x.v)
FAbs(x) == IF x.t = "nan" THEN NaNv ELSE Num(IAbs(x.v))
\* x > y is False when x is NaN
FGreater(x, y) == x.t = "num" /\ x.v > y

\* k_to_e, lines 398-409: the conversion itself
KToEMath(eta, kap, phi, ka) ==
    LET half == kap.v \div 2
        delta == ArcTanDeg(RoundDiv(TanMilli(half) * CosMilli(ka), 1000))
    IN [e_eta |-> FSub(FNeg(eta), delta),
        e_chi |-> FTwice(ArcSinDeg(RoundDiv(SinMilli(half) * SinMilli(ka), 1000))),
        e_phi |-> FSub(phi, delta)]

\* e_to_k, lines 435-447: the conversion itself
EToKMath(e_eta, e_chi, e_phi, ka) ==
    IF e_chi.t = "nan" THEN [k_eta |-> NaNv, k_kap |-> NaNv, k_phi |-> NaNv]
    ELSE
    LET half == e_chi.v \div 2
        delta == ArcSinDeg(FDiv(-TanMilli(half), TanMilli(ka)))
    IN [k_eta |-> FNeg(FSub(e_eta, delta)),
        k_kap |-> FTwice(ArcSinDeg(FDiv(SinMilli(half), SinMilli(ka)))),
        k_phi |-> FNeg(FSub(e_phi, delta))]

(***************************************************************************)
(* Kappa (gon.py 218-562): conversions and the motion interlock            *)
(***************************************************************************)
\* defaults of __init__
DefaultMaxStep == 2
DefaultKappaAng == 50

eta_max_step == DefaultMaxStep
kappa_max_step == DefaultMaxStep
phi_max_step == DefaultMaxStep

\* the kappa angles a Kappa is built with: the default, and a degenerate one
KappaAngles == {DefaultKappaAng, 0}

Axes == {"eta", "kappa", "phi"}

\* positions an axis motor is found at, and values a move is requested to
AxisPositions == {0, 4}
MoveValues == {0, 20}

\* What class Kappa and its bases define, of the names the methods look up
\* on self; the parameters of e_to_k; the locals k_to_e has bound at line 400.
KappaAttrs == {"eta", "kappa", "phi", "stop", "wait",
               "eta_position", "kappa_position", "phi_position",
               "e_eta_coord", "e_chi_coord", "e_phi_coord",
               "k_to_e", "e_to_k", "check_motor_step",
               "eta_max_step", "kappa_max_step", "phi_max_step", "kappa_ang"}
EToKParams == {"e_eta", "e_chi", "e_phi"}

Attr(name) == [kind |-> "attr", name |-> name, bound |-> FALSE]
Keyword(name) == [kind |-> "kw", name |-> name, bound |-> FALSE]
Local(name, bound) == [kind |-> "local", name |-> name, bound |-> bound]

\* Mutant of Resolve: every name the methods look up exists.
ResolveAlways(site) == None

\* Python's lookup of a name: the exception it raises, or None
Resolve(site) ==
    CASE site.kind = "attr" ->
           IF site.name \in KappaAttrs THEN None ELSE "AttributeError"
      [] site.kind = "kw" ->
           IF site.name \in EToKParams THEN None ELSE "TypeError"
      [] OTHER ->
           IF site.bound THEN None ELSE "UnboundLocalError"

NoVal == <<>>
Raise(e) == [exc |-> e, val |-> NoVal]
Return(v) == [exc |-> None, val |-> v]

\* k_to_e(eta, kappa, phi) with the axis motors at posn
KToE(eta, kappa, phi, posn, ka) ==
    LET lookup == IF IsNone(kappa) THEN Resolve(Attr("kap"))
                  ELSE Resolve(Local("kap", FALSE))
        eta1 == IF IsNone(eta) THEN Num(posn["eta"]) ELSE eta
        kap == IF IsNone(kappa) THEN Num(posn["kappa"]) ELSE kappa
        phi1 == IF IsNone(phi) THEN Num(-posn["phi"]) ELSE phi
    IN IF lookup /= None THEN Raise(lookup)
       ELSE Return(KToEMath(eta1, kap, phi1, ka))

\* e_to_k(e_eta, e_chi, e_phi) with the axis motors at posn
EToK(e_eta, e_chi, e_phi, posn, ka) ==
    LET live == KToE(NoneV, NoneV, NoneV, posn, ka)
        useLive == IsNone(e_eta) \/ IsNone(e_chi) \/ IsNone(e_phi)
    IN IF useLive /\ live.exc /= None THEN Raise(live.exc)
       ELSE Return(EToKMath(
                IF IsNone(e_eta) THEN live.val.e_eta ELSE e_eta,
                IF IsNone(e_chi) THEN live.val.e_chi ELSE e_chi,
                IF IsNone(e_phi) THEN live.val.e_phi ELSE e_phi, ka))

\* check_motor_step, lines 536-542: the axes whose step is above its max step
AboveMax(eta, kappa, phi, posn) ==
    {a \in Axes :
        \/ a = "eta" /\ FGreater(FAbs(FSub(eta, Num(posn["eta"]))), eta_max_step)
        \/ a = "kappa" /\ FGreater(FAbs(FSub(kappa, Num(posn["kappa"]))), kappa_max_step)
        \/ a = "phi" /\ FGreater(FAbs(FSub(phi, Num(posn["phi"]))), phi_max_step)}

\* check_motor_step(eta, kappa, phi) with the axis motors at posn, when the
\* operator would answer ans: the exception, whether the operator was
\* asked, and move_on
CheckMotorStep(eta, kappa, phi, posn, ans) ==
    LET lookup == Resolve(Attr("kappa_postion"))
        above == AboveMax(eta, kappa, phi, posn)
    IN IF lookup /= None THEN [exc |-> lookup, asked |-> FALSE, ret |-> FALSE]
       ELSE IF above /= {} THEN [exc |-> None, asked |-> TRUE, ret |-> (ans = "y")]
       ELSE [exc |-> None, asked |-> FALSE, ret |-> TRUE]

\* line 459 / 482 / 503: the names the conversion of a move request looks up
MvConvertLookup(kind) ==
    CASE kind = "eta" -> Resolve(Keyword("eta"))
      [] kind = "chi" -> Resolve(Keyword("chi"))
      [] OTHER -> IF Resolve(Attr("E2K")) /= None THEN Resolve(Attr("E2K"))
                  ELSE Resolve(Keyword("phi"))

\* line 459 / 480-482 / 503: the conversion a move request starts with;
\* in mv_e_chi a value 0 becomes 10e-9, which is 0 on the grid of whole degrees
MvConvert(kind, value, posn, ka) ==
    IF MvConvertLookup(kind) /= None THEN Raise(MvConvertLookup(kind))
    ELSE EToK(IF kind = "eta" THEN Num(value) ELSE NoneV,
              IF kind = "chi" THEN Num(value) ELSE NoneV,
              IF kind = "phi" THEN Num(value) ELSE NoneV, posn, ka)

\* line 460 / 483 / 504: the lookup of the interlock method
MvCheckLookup(kind) ==
    IF kind = "chi" THEN Resolve(Attr("checkMotorStep"))
    ELSE Resolve(Attr("check_motor_step"))

(***************************************************************************)
(* Kappa (gon.py 218-562): move requests                                   *)
(***************************************************************************)
\* the order in which a move commands the axis motors, and stop() halts them
MoveSequence == <<"eta", "kappa", "phi">>

\* Mutant of StopSequence: stop() forgets the phi motor.
StopSequenceWithoutPhi == <<"eta", "kappa">>

StopSequence == <<"eta", "kappa", "phi">>

Answers == {"y", "n"}

NoTargets == [k_eta |-> NoneV, k_kap |-> NoneV, k_phi |-> NoneV]

TargetOf(targets, a) ==
    CASE a = "eta" -> targets.k_eta
      [] a = "kappa" -> targets.k_kap
      [] OTHER -> targets.k_phi

EmptyKFrame == [req |-> 0, kind |-> "none", value |-> 0, targets |-> NoTargets,
                i |-> 0, moved |-> <<>>, halted |-> <<>>, asked |-> FALSE,
                answer |-> "none", interrupted |-> FALSE, at |-> [a \in Axes |-> 0],
                settled |-> FALSE]

NoCall == [fn |-> "none", args |-> <<>>, exc |-> None, asked |-> FALSE,
           ret |-> FALSE, val |-> NoVal]

\* the positions inside the try block of mv_e_eta / mv_e_chi / mv_e_phi
MvPcs == {"try", "check", "prompt", "mv", "wait"}

KappaInitWith(ka, posn) ==
    /\ kappa_ang = ka
    /\ pos = posn
    /\ moving = [a \in Axes |-> FALSE]
    /\ goal = [a \in Axes |-> Num(0)]
    /\ cmdLog = <<>>
    /\ kpc = [t \in Threads |-> "idle"]
    /\ kframe = [t \in Threads |-> EmptyKFrame]
    /\ kres = [t \in Threads |-> "none"]
    /\ nMoves = 0
    /\ api = NoCall

AtZero == [a \in Axes |-> 0]

KappaInit == \E ka \in KappaAngles : KappaInitWith(ka, AtZero)

\* an axis motor: a motion settles at its target, or the axis is found
\* moved by somebody else
AxisEvent(a, p) ==
    /\ IF moving[a]
       THEN /\ moving' = [moving EXCEPT ![a] = FALSE]
            /\ pos' = [pos EXCEPT ![a] = IF goal[a].t = "num" THEN goal[a].v ELSE @]
       ELSE /\ p /= pos[a]
            /\ pos' = [pos EXCEPT ![a] = p]
            /\ UNCHANGED moving
    /\ UNCHANGED <<kappa_ang, goal, cmdLog, kpc, kframe, kres, nMoves, api,
                   aggVars, avgVars, ucVars>>

\* a thread calls mv_e_eta(value), mv_e_chi(value) or mv_e_phi(value)
MvCall(t, kind, value) ==
    /\ kpc[t] = "idle"
    /\ nMoves < MaxMoves
    /\ nMoves' = nMoves + 1
    /\ kpc' = [kpc EXCEPT ![t] = "try"]
    /\ kframe' = [kframe EXCEPT ![t] =
                    [EmptyKFrame EXCEPT !.req = nMoves + 1, !.kind = kind,
                                        !.value = value]]
    /\ kres' = [kres EXCEPT ![t] = "none"]
    /\ UNCHANGED <<kappa_ang, pos, moving, goal, cmdLog, api, aggVars,
                   avgVars, ucVars>>

Raised(f, e) == [pc |-> "idle", frame |-> f, res |-> e, cmds |-> <<>>]
Returned(f) == [pc |-> "idle", frame |-> f, res |-> "returned", cmds |-> <<>>]
Goto(p, f) == [pc |-> p, frame |-> f, res |-> "none", cmds |-> <<>>]

\* One step of the try block of a move request: where it goes, its locals
\* (with, as history, the axis positions the conversion read and whether
\* self.wait() has returned), how it ended
\* if it did, and the command it sent to an axis motor.
\* c is the outcome of the conversion on the present axis positions, ans the
\* operator's answer at the prompt, ok whether the axis motor accepts the
\* command.
MvOutcome(t, c, ans, ok) ==
    LET f == kframe[t] IN
    CASE kpc[t] = "try" ->
           IF c.exc /= None THEN Raised([f EXCEPT !.at = pos], c.exc)
           ELSE Goto("check", [f EXCEPT !.at = pos, !.targets = c.val])
      [] kpc[t] = "check" ->
           LET chk == CheckMotorStep(f.targets.k_eta, f.targets.k_kap,
                                     f.targets.k_phi, pos, ans)
           IN IF MvCheckLookup(f.kind) /= None THEN Raised(f, MvCheckLookup(f.kind))
              ELSE IF chk.exc /= None THEN Raised(f, chk.exc)
              ELSE IF chk.asked THEN Goto("prompt", [f EXCEPT !.asked = TRUE])
              ELSE Goto("mv", [f EXCEPT !.i = 1])
      [] kpc[t] = "prompt" ->
           IF ans = "y" THEN Goto("mv", [f EXCEPT !.answer = ans, !.i = 1])
           ELSE Returned([f EXCEPT !.answer = ans])
      [] kpc[t] = "mv" ->
           LET a == MoveSequence[f.i]
               g == [f EXCEPT !.moved = Append(@, a), !.i = @ + 1]
               cmd == [req |-> f.req, cmd |-> "mv", axis |-> a,
                       target |-> TargetOf(f.targets, a)]
           IN IF ~ok THEN Raised(f, "AxisError")
              ELSE IF f.i < Len(MoveSequence)
                   THEN [Goto("mv", g) EXCEPT !.cmds = <<cmd>>]
              ELSE IF f.kind = "phi"
                   THEN [Returned(g) EXCEPT !.cmds = <<cmd>>]
              ELSE [Goto("wait", g) EXCEPT !.cmds = <<cmd>>]
      [] OTHER -> Returned([f EXCEPT !.settled = TRUE])

\* a thread takes a step in the try block of its move request
MvStep(t) ==
    /\ kpc[t] \in MvPcs
    /\ kpc[t] = "wait" => \A a \in Axes : ~moving[a]
    /\ \E c \in {MvConvert(kframe[t].kind, kframe[t].value, pos, kappa_ang)} :
       \E ans \in Answers, ok \in BOOLEAN :
       \E o \in {MvOutcome(t, c, ans, ok)} :
       \E commanded \in {{o.cmds[i].axis : i \in 1..Len(o.cmds)}} :
            /\ kpc' = [kpc EXCEPT ![t] = o.pc]
            /\ kframe' = [kframe EXCEPT ![t] = o.frame]
            /\ kres' = [kres EXCEPT ![t] = o.res]
            /\ cmdLog' = cmdLog \o o.cmds
            /\ moving' = [a \in Axes |-> moving[a] \/ a \in commanded]
            /\ goal' = [a \in Axes |->
                          IF a \in commanded THEN o.cmds[1].target ELSE goal[a]]
    /\ UNCHANGED <<kappa_ang, pos, nMoves, api, aggVars, avgVars, ucVars>>

\* KeyboardInterrupt (ctrl+c) reaches the main thread inside the try block
Interrupt(t) ==
    /\ t = MainThread
    /\ kpc[t] \in MvPcs
    /\ kpc' = [kpc EXCEPT ![t] = "stop"]
    /\ kframe' = [kframe EXCEPT ![t].interrupted = TRUE, ![t].i = 1]
    /\ UNCHANGED <<kappa_ang, pos, moving, goal, cmdLog, kres, nMoves, api,
                   aggVars, avgVars, ucVars>>

\* the except clause: stop() halts the next axis motor, then the request returns
StopStep(t) ==
    /\ kpc[t] = "stop"
    /\ LET f == kframe[t]
           a == StopSequence[f.i]
           last == f.i >= Len(StopSequence)
       IN /\ cmdLog' = Append(cmdLog, [req |-> f.req, cmd |-> "stop", axis |-> a,
                                       target |-> NoneV])
          /\ moving' = [moving EXCEPT ![a] = FALSE]
          /\ kframe' = [kframe EXCEPT ![t].halted = Append(@, a), ![t].i = @ + 1]
          /\ kpc' = [kpc EXCEPT ![t] = IF last THEN "idle" ELSE "stop"]
          /\ kres' = [kres EXCEPT ![t] = IF last THEN "returned" ELSE @]
    /\ UNCHANGED <<kappa_ang, pos, goal, nMoves, api, aggVars, avgVars,
                   ucVars>>

NextKappa ==
    \/ \E a \in Axes, p \in AxisPositions : AxisEvent(a, p)
    \/ \E t \in Threads, kind \in {"eta", "chi", "phi"}, v \in MoveValues :
         MvCall(t, kind, v)
    \/ \E t \in Threads : MvStep(t)
    \/ \E t \in Threads : Interrupt(t)
    \/ \E t \in Threads : StopStep(t)

(***************************************************************************)
(* Kappa: direct calls of the conversions and of the interlock             *)
(***************************************************************************)
SphericalArgs == {NoneV} \cup {Num(v) : v \in {0, 20, 120}}
NativeArgs == {NoneV} \cup {Num(v) : v \in {0, 4}}
DesiredArgs == {Num(v) : v \in {0, 2, 4}}

CallEToK(e_eta, e_chi, e_phi) ==
    /\ LET r == EToK(e_eta, e_chi, e_phi, pos, kappa_ang) IN
         api' = [fn |-> "e_to_k", args |-> <<e_eta, e_chi, e_phi>>,
                 exc |-> r.exc, asked |-> FALSE, ret |-> FALSE, val |-> r.val]
    /\ UNCHANGED <<kappa_ang, pos, moving, goal, cmdLog, kpc, kframe, kres,
                   nMoves, aggVars, avgVars, ucVars>>

CallKToE(eta, kappa, phi) ==
    /\ LET r == KToE(eta, kappa, phi, pos, kappa_ang) IN
         api' = [fn |-> "k_to_e", args |-> <<eta, kappa, phi>>,
                 exc |-> r.exc, asked |-> FALSE, ret |-> FALSE, val |-> r.val]
    /\ UNCHANGED <<kappa_ang, pos, moving, goal, cmdLog, kpc, kframe, kres,
                   nMoves, aggVars, avgVars, ucVars>>

CallCheckMotorStep(eta, kappa, phi, ans) ==
    /\ LET r == CheckMotorStep(eta, kappa, phi, pos, ans) IN
         api' = [fn |-> "check_motor_step", args |-> <<eta, kappa, phi>>,
                 exc |-> r.exc, asked |-> r.asked, ret |-> r.ret, val |-> NoVal]
    /\ UNCHANGED <<kappa_ang, pos, moving, goal, cmdLog, kpc, kframe, kres,
                   nMoves, aggVars, avgVars, ucVars>>

\* e_to_k(*k_to_e(eta, kappa, phi))
CallRoundTrip(eta, kappa, phi) ==
    /\ \E e \in {KToE(eta, kappa, phi, pos, kappa_ang)} :
       \E k \in {IF e.exc /= None THEN e
                 ELSE EToK(e.val.e_eta, e.val.e_chi, e.val.e_phi, pos, kappa_ang)} :
         api' = [fn |-> "round_trip", args |-> <<eta, kappa, phi>>,
                 exc |-> k.exc, asked |-> FALSE, ret |-> FALSE, val |-> k.val]
    /\ UNCHANGED <<kappa_ang, pos, moving, goal, cmdLog, kpc, kframe, kres,
                   nMoves, aggVars, avgVars, ucVars>>

\* a Kappa with its axis motors anywhere
KappaCallsInit ==
    \E ka \in KappaAngles, posn \in [Axes -> AxisPositions] : KappaInitWith(ka, posn)

NextKappaCalls ==
    \/ \E a, b, c \in SphericalArgs : CallEToK(a, b, c)
    \/ \E a, b, c \in NativeArgs : CallKToE(a, b, c)
    \/ \E a, b, c \in NativeArgs \ {NoneV} : CallRoundTrip(a, b, c)
    \/ \E a, b, c \in DesiredArgs, ans \in Answers : CallCheckMotorStep(a, b, c, ans)


(***************************************************************************)
(* UnitConversionDerivedSignal (signal.py)                                 *)
(*                                                                         *)
(* Numbers are exact decimals held in thousandths: Whole(2) is 2.0 and     *)
(* Num(1) is 0.001.  Offsets, source values and arguments are whole        *)
(* numbers, and the units differ by a factor of 1000, so every product and *)
(* quotient below is exact; the rounding of binary floating point is not   *)
(* represented.  A value is a record [t, v]: t is "num", "none" (None) or  *)
(* the name of the exception raised in its place.                          *)
(***************************************************************************)
Whole(n) == Num(n * 1000)

Exc(e) == [t |-> e, v |-> 0]

IsNum(x) == x.t = "num"

IsExc(x) == x.t \notin {"num", "none"}

Offsets == {Whole(n) : n \in (0 - MaxOffset)..MaxOffset} \cup {NoneV}

RawValues == {Whole(n) : n \in (0 - MaxRaw)..MaxRaw}

UnitNames == {"mm", "um"}

UnsupportedUnit == "UnsupportedUnit"

\* the size of a unit, in micrometres
UnitSize(u) == IF u = "mm" THEN 1000 ELSE 1

\* utils.convert_unit(value, unit, new_unit): the value of `value unit` in
\* new_unit; a name that is not a unit (None included) is an error
convert_unit(value, unit, new_unit) ==
    IF unit \notin UnitNames \/ new_unit \notin UnitNames
    THEN Exc(UnsupportedUnit)
    ELSE Num((value.v * UnitSize(unit)) \div UnitSize(new_unit))

\* the fields of the signal that forward and inverse read
SelfWith(offset, dunits, ounits) ==
    [user_offset |-> offset, derived_units |-> dunits, original_units |-> ounits]

Self == SelfWith(user_offset, derived_units, original_units)

\* forward with an unset offset silently read as 0
forwardDefaulting(self, value) ==
    convert_unit(Num(value.v - (IF IsNone(self.user_offset) THEN 0
                                ELSE self.user_offset.v)),
                 self.derived_units, self.original_units)

\* forward(value): derived signal value -> original signal value
forward(self, value) ==
    IF IsNone(self.user_offset) THEN Exc(ValueError)
    ELSE convert_unit(Num(value.v - self.user_offset.v),
                      self.derived_units, self.original_units)

\* inverse that leaves the offset out
inverseWithoutOffset(self, value) ==
    IF IsNone(self.user_offset) THEN Exc(ValueError)
    ELSE convert_unit(value, self.original_units, self.derived_units)

\* inverse(value): original signal value -> derived signal value
inverse(self, value) ==
    IF IsNone(self.user_offset) THEN Exc(ValueError)
    ELSE LET c == convert_unit(value, self.original_units, self.derived_units)
         IN  IF IsExc(c) THEN c ELSE Num(c.v + self.user_offset.v)

\* what an operation did: the value it returned or the exception it raised,
\* the derived value it left published, the values it delivered to the
\* observers of the signal and the number of reads of the source it made
Effect(result, published, delivered, reads) ==
    [result |-> result, published |-> published, delivered |-> delivered,
     reads |-> reads]

\* DerivedSignal._derived_value_callback(value): publish inverse(value) and
\* run the value subscriptions with it; nothing is published when inverse
\* raises
DerivedValueCallback(self, value, published, reads) ==
    LET v == inverse(self, value)
    IN  IF IsExc(v) THEN Effect(v, published, <<>>, reads)
        ELSE Effect(NoneV, v, <<v>>, reads)

\* _recalculate_position without its test of the connection
RecalculateAlways(self, connected, value, published) ==
    IF IsNone(value) THEN Effect(NoneV, published, <<>>, 1)
    ELSE DerivedValueCallback(self, value, published, 1)

\* _recalculate_position(): a no-operation if the original signal is not
\* connected; otherwise read it and, unless the value is None, run the
\* derived value callback with it
RecalculatePosition(self, connected, value, published) ==
    IF ~connected THEN Effect(NoneV, published, <<>>, 0)
    ELSE IF IsNone(value) THEN Effect(NoneV, published, <<>>, 1)
    ELSE DerivedValueCallback(self, value, published, 1)

\* the units a metadata callback reports: a name, None, or no 'units' at all
Absent == "absent"

ReportedUnits == UnitNames \cup {None, Absent}

\* _derived_metadata_callback that takes the units of every connected callback
AdoptAlways(current, connected, units) ==
    IF connected /\ units /= Absent THEN units ELSE current

\* _derived_metadata_callback(connected, **kwargs): original_units after it
AdoptUnits(current, connected, units) ==
    IF connected /\ units /= Absent
    THEN IF current = None THEN units ELSE current
    ELSE current

\* the state an operation started from
Before == [user_offset |-> user_offset, original_units |-> original_units,
           derivedValue |-> derivedValue, srcConnected |-> srcConnected,
           srcValue |-> srcValue]

LastOp(op, arg, units, connected, eff, back) ==
    [op |-> op, arg |-> arg, units |-> units, connected |-> connected,
     before |-> Before, result |-> eff.result, delivered |-> eff.delivered,
     reads |-> eff.reads, back |-> back]

NoEffect == Effect(NoneV, NoneV, <<>>, 0)

\* __init__(derived_from, derived_units=, original_units=, user_offset=)
UnitInitWith(offset, dunits, ounits) ==
    /\ user_offset = offset
    /\ derived_units = dunits
    /\ original_units = ounits
    /\ suppliedUnits = ounits
    /\ srcConnected = FALSE
    /\ srcValue = NoneV
    /\ derivedValue = NoneV
    /\ ucLast = [op |-> "none", arg |-> NoneV, units |-> Absent,
                 connected |-> FALSE,
                 before |-> [user_offset |-> offset, original_units |-> ounits,
                             derivedValue |-> NoneV, srcConnected |-> FALSE,
                             srcValue |-> NoneV],
                 result |-> NoneV, delivered |-> <<>>, reads |-> 0,
                 back |-> NoneV]

UnitInitFixed == UnitInitWith(Whole(0), "mm", "mm")

UnitInit ==
    \E offset \in Offsets, dunits \in UnitNames, ounits \in UnitNames \cup {None} :
        UnitInitWith(offset, dunits, ounits)

\* the original signal reports its metadata: its connection state and,
\* possibly, its units
MetadataCallback(connected, units) ==
    /\ srcConnected' = connected
    /\ original_units' = AdoptUnits(original_units, connected, units)
    /\ ucLast' = LastOp("metadata", NoneV, units, connected, NoEffect, NoneV)
    /\ UNCHANGED <<user_offset, derived_units, suppliedUnits, srcValue,
                   derivedValue, aggVars, avgVars, kapVars>>

\* the original signal, connected, takes a new value and runs the derived
\* value callback subscribed to it
SourceValue(value) ==
    /\ srcConnected
    /\ srcValue' = value
    /\ \E eff \in {DerivedValueCallback(Self, value, derivedValue, 0)} :
          /\ derivedValue' = eff.published
          /\ ucLast' = LastOp("value", value, Absent, srcConnected, eff, NoneV)
    /\ UNCHANGED <<user_offset, derived_units, original_units,
                   suppliedUnits, srcConnected, aggVars, avgVars, kapVars>>

\* signal.user_offset = offset: store it, then recalculate the position
SetUserOffset(offset) ==
    /\ user_offset' = offset
    /\ \E eff \in {RecalculatePosition(SelfWith(offset, derived_units, original_units),
                                       srcConnected, srcValue, derivedValue)} :
          /\ derivedValue' = eff.published
          /\ ucLast' = LastOp("user_offset", offset, Absent, srcConnected, eff, NoneV)
    /\ UNCHANGED <<derived_units, original_units, suppliedUnits,
                   srcConnected, srcValue, aggVars, avgVars, kapVars>>

\* signal.forward(value)
CallForward(value) ==
    /\ ucLast' = LastOp("forward", value, Absent, srcConnected,
                        Effect(forward(Self, value), derivedValue, <<>>, 0), NoneV)
    /\ UNCHANGED <<user_offset, derived_units, original_units,
                   suppliedUnits, srcConnected, srcValue, derivedValue,
                   aggVars, avgVars, kapVars>>

\* signal.inverse(value)
CallInverse(value) ==
    /\ ucLast' = LastOp("inverse", value, Absent, srcConnected,
                        Effect(inverse(Self, value), derivedValue, <<>>, 0), NoneV)
    /\ UNCHANGED <<user_offset, derived_units, original_units,
                   suppliedUnits, srcConnected, srcValue, derivedValue,
                   aggVars, avgVars, kapVars>>

\* signal.inverse(signal.forward(value)), for a forward that returns
CallInverseForward(value) ==
    /\ IsNum(forward(Self, value))
    /\ ucLast' = LastOp("inverse_forward", value, Absent, srcConnected,
                        Effect(forward(Self, value), derivedValue, <<>>, 0),
                        inverse(Self, forward(Self, value)))
    /\ UNCHANGED <<user_offset, derived_units, original_units,
                   suppliedUnits, srcConnected, srcValue, derivedValue,
                   aggVars, avgVars, kapVars>>

\* signal.forward(signal.inverse(value)), for an inverse that returns
CallForwardInverse(value) ==
    /\ IsNum(inverse(Self, value))
    /\ ucLast' = LastOp("forward_inverse", value, Absent, srcConnected,
                        Effect(inverse(Self, value), derivedValue, <<>>, 0),
                        forward(Self, inverse(Self, value)))
    /\ UNCHANGED <<user_offset, derived_units, original_units,
                   suppliedUnits, srcConnected, srcValue, derivedValue,
                   aggVars, avgVars, kapVars>>

NextUnit ==
    \/ \E connected \in BOOLEAN, units \in ReportedUnits :
          MetadataCallback(connected, units)
    \/ \E value \in RawValues : SourceValue(value)
    \/ \E offset \in Offsets : SetUserOffset(offset)
    \/ \E value \in RawValues : CallForward(value)
    \/ \E value \in RawValues : CallInverse(value)
    \/ \E value \in RawValues : CallInverseForward(value)
    \/ \E value \in RawValues : CallForwardInverse(value)
(***************************************************************************)
(* Specifications                                                          *)
(***************************************************************************)
vars == <<aggVars, avgVars, kapVars, ucVars>>

\* Each specification starts its own component in any of its initial
\* states and keeps the other components in one fixed initial state.
InitAgg ==
    AggInit /\ AvgInitWith(1) /\ KappaInitWith(DefaultKappaAng, AtZero) /\ UnitInitFixed

InitAggRejecting ==
    /\ AggInitRejecting /\ AvgInitWith(1)
    /\ KappaInitWith(DefaultKappaAng, AtZero) /\ UnitInitFixed

InitAvg ==
    AggInitWith(TRUE) /\ AvgInit /\ KappaInitWith(DefaultKappaAng, AtZero) /\ UnitInitFixed

InitKappa == AggInitWith(TRUE) /\ AvgInitWith(1) /\ KappaInit /\ UnitInitFixed

InitKappaCalls ==
    AggInitWith(TRUE) /\ AvgInitWith(1) /\ KappaCallsInit /\ UnitInitFixed

InitUnit ==
    /\ AggInitWith(TRUE) /\ AvgInitWith(1)
    /\ KappaInitWith(DefaultKappaAng, AtZero) /\ UnitInit

SpecAgg == InitAgg /\ [][NextAgg]_vars

SpecAggRejecting == InitAggRejecting /\ [][NextAgg]_vars

SpecAvg == InitAvg /\ [][NextAvg]_vars

SpecKappa == InitKappa /\ [][NextKappa]_vars

SpecKappaCalls == InitKappaCalls /\ [][NextKappaCalls]_vars

SpecUnit == InitUnit /\ [][NextUnit]_vars

\* _init_subs runs on a thread of its own: once the subscription is made, its
\* last statement is executed.
SpecAvgLive == SpecAvg /\ WF_vars(InitSubsSetCon)

(***************************************************************************)
(* Properties                                                              *)
(***************************************************************************)

ChangeSuppression ==
    [][\A t \in Threads :
        (pc[t] = "rsv_notify" /\ pc'[t] = "idle" /\ update_only_on_change) =>
            IF readback = frame[t].before
            THEN obsLog' = obsLog
            ELSE /\ Len(obsLog') = Len(obsLog) + 1
                 /\ SubSeq(obsLog', 1, Len(obsLog)) = obsLog
                 /\ obsLog'[Len(obsLog')].args =
                        [value |-> readback, old_value |-> frame[t].before]]_vars

\* C2 witness: observers have been called before, and the last notification
\* was suppressed because the readback did not change.
ChangeSuppressionWitness ==
    /\ update_only_on_change
    /\ lastOutcome = "suppressed"
    /\ obsLog /= <<>>

\* The mean of the last k samples of a sequence, as a fraction.
RECURSIVE SumSeq(_)
SumSeq(q) == IF q = <<>> THEN 0 ELSE Head(q) + SumSeq(Tail(q))
Min(a, b) == IF a < b THEN a ELSE b
MeanOfLast(q, k) == [sum |-> SumSeq(SubSeq(q, Len(q) - k + 1, Len(q))), n |-> k]
SameMean(a, b) == a.n > 0 /\ b.n > 0 /\ a.sum * b.n = b.sum * a.n

\* No _update_avg is between its buffer write and its put.
AvgSettled == \A t \in Threads : avgPc[t] \notin {"upd_index", "upd_put"}

\* C10: after m samples have been written into a buffer of capacity N since
\* the last capacity change, the published value is the arithmetic mean of
\* the last min(m, N) samples.
RollingWindow ==
    (AvgSettled /\ fed /= <<>>) =>
        SameMean(avgValue, MeanOfLast(fed, Min(Len(fed), avg)))

\* C10 witness: more samples than the capacity were written, so the oldest
\* was overwritten, and the mean is not the mean of all samples.
RollingWindowWitness ==
    /\ AvgSettled
    /\ Len(fed) > avg
    /\ avg > 1
    /\ ~SameMean(avgValue, MeanOfLast(fed, Len(fed)))

(***************************************************************************)
(* Kappa: properties                                                       *)
(***************************************************************************)
SeqSet(s) == {s[i] : i \in 1..Len(s)}

\* the request of thread t has ended
Finished(t) == kpc[t] = "idle" /\ kframe[t].req > 0

\* the commands request r sent to the axis motors, as positions in cmdLog
CmdsOf(r) == {i \in 1..Len(cmdLog) : cmdLog[i].req = r}

ExpectedTargets(kind, value, posn, ka) ==
    LET live == KToEMath(Num(posn["eta"]), Num(posn["kappa"]), Num(-posn["phi"]), ka)
    IN EToKMath(IF kind = "eta" THEN Num(value) ELSE live.e_eta,
                IF kind = "chi" THEN Num(value) ELSE live.e_chi,
                IF kind = "phi" THEN Num(value) ELSE live.e_phi, ka)

ExpectedAbove(t) ==
    LET e == ExpectedTargets(kframe[t].kind, kframe[t].value, kframe[t].at, kappa_ang)
    IN AboveMax(e.k_eta, e.k_kap, e.k_phi, kframe[t].at)

\* C9 (single-coordinate move): a move request that is not interrupted and
\* whose three axis steps are within their max steps returns without having
\* asked the operator, having commanded eta, kappa and phi, in this order,
\* to the targets of the conversion.
\* The code does not do this: mv_e_eta(0) with the axes at 0 raises TypeError
\* (e_to_k has no parameter eta) and commands nothing.
SingleCoordinateMove ==
    \A t \in Threads :
        (Finished(t) /\ ~kframe[t].interrupted /\ ExpectedAbove(t) = {}) =>
            /\ kres[t] = "returned"
            /\ ~kframe[t].asked
            /\ kframe[t].moved = MoveSequence
            /\ \A i \in CmdsOf(kframe[t].req) :
                 cmdLog[i].cmd = "mv" /\
                 cmdLog[i].target =
                     TargetOf(ExpectedTargets(kframe[t].kind, kframe[t].value,
                                              kframe[t].at, kappa_ang),
                              cmdLog[i].axis)

\* the desired positions of a check_motor_step call, and the axes whose step
\* is above its max step
ApiAbove == AboveMax(api.args[1], api.args[2], api.args[3], pos)

InterlockBoundary ==
    api.fn = "check_motor_step" =>
        /\ api.exc = None
        /\ api.asked <=> (ApiAbove /= {})
        /\ ApiAbove = {} => api.ret

\* e_chi is outside the domain of e_to_k for the kappa angle ka
OutOfDomain(e_chi, ka) ==
    \/ SinMilli(ka) = 0
    \/ IAbs(SinMilli(e_chi.v \div 2)) > IAbs(SinMilli(ka))

\* C6 (out-of-domain conversion): e_to_k of a triple outside its domain, or
\* with a degenerate kappa angle, ends in an error and returns no NaN.
\* The code does not do this: e_to_k(0, 120, 0) with kappa_ang 50 returns
\* (NaN, NaN, NaN) and raises nothing.
DomainError ==
    (/\ api.fn = "e_to_k"
     /\ \A i \in 1..3 : ~IsNone(api.args[i])
     /\ OutOfDomain(api.args[2], kappa_ang))
        => api.exc /= None

RoundTrip ==
    (/\ api.fn = "round_trip"
     /\ kappa_ang % 180 /= 0
     /\ IAbs(api.args[2].v) < 170)
        => /\ api.exc = None
           /\ api.val = [k_eta |-> api.args[1], k_kap |-> api.args[2],
                         k_phi |-> api.args[3]]

(***************************************************************************)
(* AvgSignal: further properties                                           *)
(***************************************************************************)
\* thread t ends an assignment to averages in this step
SetterEnds(t) == avgPc[t] = "set_alloc" /\ avgPc'[t] = "idle"

\* thread t goes through an assignment to averages in this step
SetterSteps(t) ==
    \/ avgPc[t] = "idle" /\ avgPc'[t] = "set_alloc"
    \/ SetterEnds(t)

\* thread t publishes in this step
Publishes(t) == avgPc[t] = "upd_put" /\ avgPc'[t] = "idle"

\* C11: an assignment to averages leaves a buffer of the new capacity with
\* every slot NaN and the cursor at 0, and publishes nothing (no put, the
\* value of the signal stays); a value published afterwards is the mean of
\* samples written after the assignment only.
CapacityReset ==
    [][\A t \in Threads :
        /\ SetterSteps(t) => (avgPuts' = avgPuts /\ avgValue' = avgValue /\ index' = 0)
        /\ SetterEnds(t) => /\ DOMAIN values' = 0..(avg' - 1)
                            /\ \A k \in DOMAIN values' : values'[k] = NaN
        /\ Publishes(t) => /\ fed /= <<>>
                           /\ SameMean(avgValue',
                                       MeanOfLast(fed, Min(Len(fed), avg)))]_vars

\* C11 witness: after values were published the buffer is empty again, with
\* the cursor at 0: an assignment to averages has discarded the samples.
CapacityResetWitness ==
    /\ avgPuts > 0
    /\ avgLock = None
    /\ index = 0
    /\ \A k \in DOMAIN values : values[k] = NaN
    /\ \A t \in Threads : avgPc[t] = "idle"

\* thread t is inside the with block of _update_avg or of the setter
InAvgGuard(t) == avgPc[t] \in {"upd_index", "upd_put", "set_alloc"}

\* C12: the buffer write, cursor advance, mean and publish of an update, and
\* the steps of a capacity change, run under the lock one thread at a time;
\* the cursor is always an index of the current buffer; and outside the
\* guard the published value is the mean of the set slots of the buffer.
AvgAtomicity ==
    /\ \A t, u \in Threads : (InAvgGuard(t) /\ InAvgGuard(u)) => t = u
    /\ \A t \in Threads : InAvgGuard(t) => avgLock = t
    /\ index \in 0..(Cardinality(DOMAIN values) - 1)
    /\ ((\A t \in Threads : ~InAvgGuard(t)) /\ (\E k \in DOMAIN values : values[k] /= NaN))
         => SameMean(avgValue, NanMean(values))

\* C12 witness: a capacity change is under way while an update that was
\* delivered on another thread waits for the lock, after a value was published.
AvgAtomicityWitness ==
    \E t, u \in Threads :
        /\ avgPc[t] = "set_alloc"
        /\ avgPc[u] = "upd_lock"
        /\ avgPuts > 0

\* C13: the AvgSignal exists before its source is connected; as long as
\* _init_subs has not subscribed to the source, connected is False, the
\* buffer is empty and nothing has been published; connected is True only
\* with the subscription made, and once it is made connected becomes True.
AsyncConnect ==
    /\ [](~rawSubscribed =>
            /\ ~con
            /\ fed = <<>>
            /\ avgPuts = 0
            /\ \A k \in DOMAIN values : values[k] = NaN)
    /\ [](initPc = "done" => con)
    /\ (rawSubscribed ~> con)

\* C13 witness: the source is connected and has a value, the signal was
\* built long ago, and _init_subs has not subscribed yet.
AsyncConnectWitness ==
    /\ rawConnected
    /\ rawValue /= <<>>
    /\ ~rawSubscribed
    /\ initPc = "subscribe"
    /\ ~con

\* C14: when the source has disconnected after _init_subs has subscribed and
\* finished, connected is False.
\* The code does not do this: _con is set True once by _init_subs and never
\* set again, so connected stays True while the source is disconnected.
DisconnectReported ==
    (initPc = "done" /\ rawSubscribed /\ ~rawConnected) => ~con


(***************************************************************************)
(* Claims about UnitConversionDerivedSignal                                *)
(***************************************************************************)
\* C21 -- Unset offset is an error at the point of use: a call of forward or
\* inverse made while user_offset is None raises ValueError, whatever the
\* units; made with a set offset, forward(value) is
\* convert_unit(value - offset, derived_units, original_units) and
\* inverse(value) is convert_unit(value, original_units, derived_units) +
\* offset (the error of convert_unit, when it raises).
UnsetOffsetRaises ==
    ucLast.op \in {"forward", "inverse"} =>
        LET off == ucLast.before.user_offset
            c == convert_unit(ucLast.arg, original_units, derived_units)
        IN  IF IsNone(off) THEN ucLast.result = Exc(ValueError)
            ELSE IF ucLast.op = "forward"
            THEN ucLast.result = convert_unit(Num(ucLast.arg.v - off.v),
                                              derived_units, original_units)
            ELSE ucLast.result = (IF IsExc(c) THEN c ELSE Num(c.v + off.v))

\* forward has been called with user_offset unset and valid units, and raised
UnsetOffsetRaisesWitness ==
    /\ ucLast.op = "forward"
    /\ IsNone(user_offset)
    /\ original_units \in UnitNames
    /\ ucLast.result = Exc(ValueError)

\* C22 -- Unit-conversion round trip: with a set offset and two known units,
\* inverse(forward(x)) = x and forward(inverse(x)) = x for every x.
UnitRoundTrip ==
    ucLast.op \in {"inverse_forward", "forward_inverse"} => ucLast.back = ucLast.arg

\* inverse(forward(x)) has been computed with a non-zero offset between two
\* different units, for an x that is not 0, and is x
UnitRoundTripWitness ==
    /\ ucLast.op = "inverse_forward"
    /\ IsNum(user_offset) /\ user_offset.v /= 0
    /\ derived_units /= original_units
    /\ ucLast.arg.v /= 0
    /\ ucLast.result /= ucLast.arg
    /\ ucLast.back = ucLast.arg

\* the derived value of the original value `value` under the offset `offset`
DerivedOf(value, offset) ==
    Num(convert_unit(value, original_units, derived_units).v + offset.v)

\* C23 as stated -- every assignment of user_offset made while the source is
\* connected publishes the derived value of the source's current value under
\* the new offset and delivers it to the observers; every assignment made
\* while the source is not connected delivers nothing and does not read the
\* source.
OffsetRedeliveryAlways ==
    ucLast.op = "user_offset" =>
        IF ucLast.before.srcConnected
        THEN /\ derivedValue = DerivedOf(srcValue, ucLast.arg)
             /\ ucLast.delivered = <<derivedValue>>
        ELSE /\ ucLast.delivered = <<>>
             /\ ucLast.reads = 0

\* C23 -- Offset change redelivery: assigning a number to user_offset while
\* the source is connected, holds a value and the original units are known
\* reads the source once, publishes the derived value of that value under the
\* new offset and delivers it once to the observers.  Every other assignment
\* delivers nothing and leaves the published value as it was, and an
\* assignment made while the source is not connected does not read the source.
OffsetRedelivery ==
    ucLast.op = "user_offset" =>
        IF /\ ucLast.before.srcConnected
           /\ IsNum(ucLast.arg)
           /\ IsNum(srcValue)
           /\ original_units \in UnitNames
        THEN /\ user_offset = ucLast.arg
             /\ derivedValue = DerivedOf(srcValue, ucLast.arg)
             /\ ucLast.delivered = <<derivedValue>>
             /\ ucLast.reads = 1
             /\ ucLast.result = NoneV
        ELSE /\ ucLast.delivered = <<>>
             /\ derivedValue = ucLast.before.derivedValue
             /\ ~ucLast.before.srcConnected => ucLast.reads = 0 /\ ucLast.result = NoneV

\* an offset different from the one before has been assigned while the source
\* was connected with a value, and the new derived value has been delivered
OffsetRedeliveryWitness ==
    /\ ucLast.op = "user_offset"
    /\ ucLast.before.srcConnected
    /\ IsNum(srcValue)
    /\ IsNum(ucLast.before.user_offset)
    /\ IsNum(ucLast.arg)
    /\ ucLast.arg /= ucLast.before.user_offset
    /\ ucLast.delivered = <<derivedValue>>
    /\ derivedValue /= ucLast.before.derivedValue

\* C24 -- Original unit is adopted once: a metadata callback changes
\* original_units only if it is None, the callback says connected and it
\* carries units, and it then sets it to those units; original_units that has
\* a value, supplied to the constructor or adopted, is left alone by every
\* metadata callback.
AdoptedOnce ==
    ucLast.op = "metadata" =>
        IF /\ ucLast.before.original_units = None
           /\ ucLast.connected
           /\ ucLast.units /= Absent
        THEN original_units = ucLast.units
        ELSE original_units = ucLast.before.original_units

\* original_units was not supplied, has been adopted from the source, and a
\* later connected metadata callback reporting another unit has left it alone
AdoptedOnceWitness ==
    /\ ucLast.op = "metadata"
    /\ suppliedUnits = None
    /\ ucLast.before.original_units \in UnitNames
    /\ ucLast.connected
    /\ ucLast.units \in UnitNames
    /\ ucLast.units /= ucLast.before.original_units
    /\ original_units = ucLast.before.original_units

\* C27 -- Offset assignment is all-or-nothing: an assignment of user_offset
\* that raises leaves the stored offset and the published derived value as
\* they were before it.
OffsetAllOrNothing ==
    (ucLast.op = "user_offset" /\ IsExc(ucLast.result)) =>
        /\ user_offset = ucLast.before.user_offset
        /\ derivedValue = ucLast.before.derivedValue

(***************************************************************************)
(* Claims about the subscriptions of AggregateSignal                       *)
(***************************************************************************)

\* C25 -- Single handler attachment: whatever subscribe() calls have been
\* made, no sub-signal has _run_sub_value attached more than once, so a
\* source change posts a single call of _run_sub_value.
SingleAttachment == \A s \in Sigs : attached[s] <= 1

\* nothing is running and no notification is waiting
Quiescent == pending = <<>> /\ \A t \in Threads : pc[t] = "idle"

\* C26 -- No lost change: with suppression enabled, the handler attached once
\* to every sub-signal and the cache fully populated, once every pending
\* notification has been processed the value last delivered to the observers
\* is the current readback.
NoLostChange ==
    (/\ update_only_on_change
     /\ Quiescent
     /\ populated
     /\ \A s \in Sigs : attached[s] = 1
     /\ observers /= <<>>
     /\ obsLog /= <<>>)
        => obsLog[Len(obsLog)].args.value = readback
(***************************************************************************)
(* AggregateSignal: further properties                                     *)
(***************************************************************************)
\* C15: the first subscription attaches _run_sub_value to every sub-signal
\* (run=False: no call is made at once) and then does one get(); so whenever
\* _run_sub_value has stored the value of a change and recomputes, the cache
\* has an entry for every sub-signal.
\* The code does not do this: the handlers are attached before get() and
\* outside the lock, so a sub-signal that changes in between is processed by
\* _run_sub_value on a cache that lacks the other sub-signals.
WarmUp ==
    \A t \in Threads :
        pc[t] \in {"rsv_update", "rsv_notify"} => DOMAIN cache = Sigs

\* C16: whenever _run_sub_value calls the observers, the calling thread does
\* not hold the lock of the signal.
\* The code does not do this: self._run_subs(...) is inside the with block.
ObserversOutsideGuard ==
    \A i \in 1..Len(obsLog) : ~obsLog[i].locked

\* the recomputations that call the observers
RECURSIVE Notifying(_)
Notifying(q) ==
    IF q = <<>> THEN <<>>
    ELSE IF ShouldNotify(Head(q).value, Head(q).old_value, update_only_on_change)
         THEN <<Head(q)>> \o Notifying(Tail(q))
         ELSE Notifying(Tail(q))

\* what the observers were called with, in order
Delivered == [i \in 1..Len(obsLog) |-> obsLog[i].args]

IsPrefix(p, q) == Len(p) <= Len(q) /\ p = SubSeq(q, 1, Len(p))

RecomputeFailure ==
    [][\A t \in Threads :
        /\ (pc[t] = "rsv_update" /\ pc'[t] /= "rsv_update"
                /\ CalcReadback(cache).exc /= None) =>
              /\ pc'[t] = "idle"
              /\ lastOutcome' = "raised"
              /\ cache' = cache
              /\ cache[frame[t].sig] = frame[t].value
              /\ readback' = readback
              /\ obsLog' = obsLog
              /\ lockOwner' = None
        /\ (pc[t] = "get_update" /\ pc'[t] /= "get_update"
                /\ CalcReadback(cache).exc /= None) =>
              /\ pc'[t] = "idle"
              /\ getResult' = CalcReadback(cache).exc
              /\ cache' = cache
              /\ DOMAIN cache = Sigs
              /\ cache = latest
              /\ readback' = readback
              /\ lockOwner' = None]_vars

\* C18 witness: _calc_readback has raised in a change notification and in a
\* get() on a full cache, and the cache holds the rejected values.
RecomputeFailureWitness ==
    /\ lastOutcome = "raised"
    /\ getResult = ValueError
    /\ DOMAIN cache = Sigs
    /\ \A s \in Sigs : cache[s] \in badValues
    /\ lockOwner = None

=============================================================================
